---- MODULE Spec2Model ----
(***************************************************************************)
(* The quiz-session engine of the bot (src/bot.py, class QuizBot).         *)
(*                                                                         *)
(* One action per handler: receive_data, generate_quiz, the job-queue      *)
(* callbacks send_quiz and update_timer, and handle_poll_answer.  Every    *)
(* handler runs to completion before the next one starts.  The job queue   *)
(* hands a send_quiz job its stored job context (chat_id and the /generate *)
(* update).  All send_quiz jobs are scheduled with the same 10 second      *)
(* delay, so they fire in the order in which they were scheduled.          *)
(* The results of the calls to the chat transport (send_poll,              *)
(* send_message, edit_message_text) are inputs of the actions.             *)
(*                                                                         *)
(* Three specifications: Spec is the engine from construction, LoadedSpec  *)
(* the engine after a first text was received, and ExtractSpec the loops   *)
(* of extract_quiz_data and fallback_quiz_extraction that build the        *)
(* question records.                                                       *)
(***************************************************************************)
EXTENDS Integers, Sequences, FiniteSets, TLC

\* ---------------------------------------------------------------- bounds
MaxLen == 2          \* longest question set an extraction returns
MaxSteps == 5        \* handler runs (updates received and jobs run)
MaxFaults == 1       \* handler runs in which a transport call raises

\* ------------------------------------------------------ program constants
question_timeout == 30
NumAnswers == 4
None == -1

\* The chats that talk to the bot (update.message.chat_id).
Chats == {1, 2}
Options == 0..(NumAnswers - 1)

\* A question record as far as the engine reads it: quiz['correct'].
Record(i) == [correct |-> (i - 1) % NumAnswers]

\* What extract_quiz_data may return (quizzes[:10], here at most MaxLen
\* records): one sample set of each length, its records differing in their
\* correct option.
QuestionSets == {[i \in 1..n |-> Record(i)] : n \in 0..MaxLen}

VARIABLES
    quizzes,        \* self.quizzes
    current_quiz,   \* self.current_quiz (None or an index)
    user_data,      \* self.user_data: chat_id -> [score, total]
    bot_data,       \* context.bot_data: poll id -> chat_id
    jobs,           \* job queue: pending send_quiz jobs, in firing order
    timers,         \* job queue: pending update_timer jobs
    polls,          \* the polls sent so far, as the chat transport holds them,
                    \* each with the number of times it raised a score
    session,        \* chat_id -> the /generate update that started its session
    finals,         \* chat_id -> number of "Quiz finished!" messages sent
    steps,          \* handler runs so far
    faults,         \* handler runs so far in which a transport call raised
    ev,             \* the handler that ran last, its input and what it sent
    extract         \* the locals of a running extraction of question records

vars == <<quizzes, current_quiz, user_data, bot_data, jobs, timers, polls,
          session, finals, steps, faults, ev, extract>>

NoSessions == [c \in {} |-> [score |-> 0, total |-> 0]]

\* A message sent to the chat; score and total are the numbers it shows.
Msg(text) == [text |-> text, score |-> 0, total |-> 0]

NoEvent == [op |-> "init", chat |-> 0, upd |-> 0, poll |-> 0, idx |-> None,
            out |-> "", msgs |-> <<>>]

\* No extraction is running.
NoRecord == [question |-> "", answers |-> <<>>, correct |-> None]

Idle == [src |-> "idle", seen |-> 0, quizzes |-> 0, record |-> NoRecord,
         correct_answer |-> "", returned |-> None]

Event(op, chat, upd, poll, idx, out, msgs) ==
    [op |-> op, chat |-> chat, upd |-> upd, poll |-> poll, idx |-> idx,
     out |-> out, msgs |-> msgs]

Init ==
    /\ quizzes = <<>>
    /\ current_quiz = None
    /\ user_data = NoSessions
    /\ bot_data = <<>>
    /\ jobs = <<>>
    /\ timers = {}
    /\ polls = <<>>
    /\ session = [c \in Chats |-> 0]
    /\ finals = [c \in Chats |-> 0]
    /\ steps = 0
    /\ faults = 0
    /\ ev = NoEvent
    /\ extract = Idle

\* ------------------------------------------------------------ receive_data
receive_data(qs) ==
    /\ steps < MaxSteps
    /\ steps' = steps + 1
    /\ quizzes' = qs
    /\ ev' = Event("receive_data", 0, 0, 0, None,
                   IF qs # <<>> THEN "generated" ELSE "none",
                   IF qs # <<>> THEN <<Msg("Generated quizzes")>>
                                ELSE <<Msg("Could not generate quizzes")>>)
    /\ UNCHANGED <<current_quiz, user_data, bot_data, jobs, timers, polls,
                   session, finals, faults>>

\* --------------------------------------------------------------- send_quiz
\* What the transport calls of one run of send_quiz may do, given the cursor
\* it reads on entry.
Outcomes(cq) ==
    IF cq = None THEN {"type_error"}
    ELSE IF cq >= Len(quizzes) THEN {"ok", "final_neterr"}
    ELSE {"ok", "poll_neterr", "poll_neterr_notice_neterr", "poll_error",
          "msg_neterr", "msg_neterr_notice_neterr"}

NewPoll(cq, chat, upd) ==
    [chat |-> chat, upd |-> upd, idx |-> cq, correct |-> quizzes[cq + 1].correct,
     voter_count |-> [o \in Options |-> 0], scored |-> 0]

\* The outcomes in which a call to the transport raised.
Raises(net) == net \notin {"ok", "type_error"}

Retrying == Msg("Network issue. Retrying in 10 seconds...")

\* send_quiz(context, job_context) entered with self.current_quiz = cq and
\* self.user_data = ud; rest is the job queue without the job that is running.
send_quiz(cq, ud, rest, chat, upd, net, op) ==
    LET job == [chat_id |-> chat, update |-> upd]
        pid == Len(polls) + 1
    IN
    /\ net \in Outcomes(cq)
    /\ Raises(net) => faults < MaxFaults
    /\ faults' = IF Raises(net) THEN faults + 1 ELSE faults
    /\ steps < MaxSteps
    /\ steps' = steps + 1
    /\ quizzes' = quizzes
    /\ user_data' = ud
    /\ CASE cq = None ->
            \* None >= len(self.quizzes) raises TypeError
            /\ current_quiz' = cq
            /\ jobs' = rest
            /\ ev' = Event(op, chat, upd, 0, cq, net, <<>>)
            /\ UNCHANGED <<bot_data, timers, polls, finals>>
         [] cq # None /\ cq >= Len(quizzes) /\ net = "ok" ->
            /\ current_quiz' = None
            /\ finals' = [finals EXCEPT ![chat] = @ + 1]
            /\ jobs' = rest
            /\ ev' = Event(op, chat, upd, 0, cq, "finished",
                           <<[text |-> "Quiz finished! Your score:",
                              score |-> ud[chat].score,
                              total |-> ud[chat].total]>>)
            /\ UNCHANGED <<bot_data, timers, polls>>
         [] cq # None /\ cq >= Len(quizzes) /\ net = "final_neterr" ->
            /\ current_quiz' = cq
            /\ jobs' = rest
            /\ ev' = Event(op, chat, upd, 0, cq, net, <<>>)
            /\ UNCHANGED <<bot_data, timers, polls, finals>>
         [] cq # None /\ cq < Len(quizzes) /\ net = "ok" ->
            /\ polls' = Append(polls, NewPoll(cq, chat, upd))
            /\ bot_data' = Append(bot_data, chat)
            /\ timers' = timers \cup {[chat_id |-> chat, message_id |-> pid,
                                       left |-> question_timeout]}
            /\ current_quiz' = cq + 1
            /\ jobs' = IF cq + 1 < Len(quizzes) THEN Append(rest, job) ELSE rest
            /\ ev' = Event(op, chat, upd, pid, cq, "sent",
                           <<Msg("Time remaining:")>>)
            /\ UNCHANGED finals
         [] cq # None /\ cq < Len(quizzes)
               /\ net \in {"msg_neterr", "msg_neterr_notice_neterr"} ->
            \* send_poll succeeded, the countdown message raised NetworkError
            /\ polls' = Append(polls, NewPoll(cq, chat, upd))
            /\ bot_data' = Append(bot_data, chat)
            /\ current_quiz' = cq
            /\ jobs' = IF net = "msg_neterr" THEN Append(rest, job) ELSE rest
            /\ ev' = Event(op, chat, upd, pid, cq, net,
                           IF net = "msg_neterr" THEN <<Retrying>> ELSE <<>>)
            /\ UNCHANGED <<timers, finals>>
         [] cq # None /\ cq < Len(quizzes)
               /\ net \in {"poll_neterr", "poll_neterr_notice_neterr"} ->
            /\ current_quiz' = cq
            /\ jobs' = IF net = "poll_neterr" THEN Append(rest, job) ELSE rest
            /\ ev' = Event(op, chat, upd, 0, cq, net,
                           IF net = "poll_neterr" THEN <<Retrying>> ELSE <<>>)
            /\ UNCHANGED <<bot_data, timers, polls, finals>>
         [] cq # None /\ cq < Len(quizzes) /\ net = "poll_error" ->
            \* an error that is not a NetworkError leaves send_quiz
            /\ current_quiz' = cq
            /\ jobs' = rest
            /\ ev' = Event(op, chat, upd, 0, cq, net, <<>>)
            /\ UNCHANGED <<bot_data, timers, polls, finals>>

AllOutcomes == {"type_error", "ok", "final_neterr", "poll_neterr",
                "poll_neterr_notice_neterr", "poll_error", "msg_neterr",
                "msg_neterr_notice_neterr"}

\* ----------------------------------------------------------- generate_quiz
\* /generate with self.quizzes empty: a reply and nothing else.
no_quizzes(chat) ==
    /\ steps' = steps + 1
    /\ ev' = Event("generate_quiz", chat, steps + 1, 0, None, "no_quizzes",
                   <<Msg("No quizzes available.")>>)
    /\ UNCHANGED <<quizzes, current_quiz, user_data, bot_data, jobs, timers,
                   polls, session, finals, faults>>

\* The cursor is reset, the chat's entry is (re)created and the first
\* question is sent at once.
start_quiz(chat) ==
    /\ session' = [session EXCEPT ![chat] = steps + 1]
    /\ \E net \in AllOutcomes :
          send_quiz(0,
                    [c \in DOMAIN user_data \cup {chat} |->
                        IF c = chat THEN [score |-> 0, total |-> Len(quizzes)]
                                    ELSE user_data[c]],
                    jobs, chat, steps + 1, net, "generate_quiz")

generate_quiz_unchecked(chat) ==
    /\ steps < MaxSteps
    /\ start_quiz(chat)

generate_quiz(chat) ==
    /\ steps < MaxSteps
    /\ IF quizzes = <<>> THEN no_quizzes(chat) ELSE start_quiz(chat)

\* The job queue runs the send_quiz job that is due first.
run_send_quiz ==
    /\ jobs # <<>>
    /\ session' = session
    /\ \E net \in AllOutcomes :
          send_quiz(current_quiz, user_data, Tail(jobs),
                    Head(jobs).chat_id, Head(jobs).update, net, "send_quiz")

\* ------------------------------------------------------------ update_timer
\* update_timer as it would be if the expiry moved the session on.
update_timer_advancing(t, remaining, edit) ==
    /\ t \in timers
    /\ steps < MaxSteps
    /\ steps' = steps + 1
    /\ remaining \in {t.left - 1, 0}
    /\ edit \in {"ok", "bad_request"}
    /\ edit = "bad_request" => faults < MaxFaults
    /\ faults' = IF edit = "bad_request" THEN faults + 1 ELSE faults
    /\ timers' = IF remaining > 0 /\ edit = "ok"
                 THEN (timers \ {t}) \cup {[t EXCEPT !.left = remaining]}
                 ELSE timers \ {t}
    /\ current_quiz' = IF remaining <= 0 /\ current_quiz # None
                       THEN current_quiz + 1 ELSE current_quiz
    /\ ev' = Event("update_timer", t.chat_id, 0, t.message_id, None,
                   IF remaining <= 0 THEN "expired" ELSE "tick", <<>>)
    /\ UNCHANGED <<quizzes, user_data, bot_data, jobs, polls, session,
                   finals>>

\* update_timer as it would be if a failed edit did not end the countdown.
update_timer_unstopped(t, remaining, edit) ==
    /\ t \in timers
    /\ steps < MaxSteps
    /\ steps' = steps + 1
    /\ remaining \in {t.left - 1, 0}
    /\ edit \in {"ok", "bad_request"}
    /\ edit = "bad_request" => faults < MaxFaults
    /\ faults' = IF edit = "bad_request" THEN faults + 1 ELSE faults
    /\ timers' = IF remaining > 0
                 THEN (timers \ {t}) \cup {[t EXCEPT !.left = remaining]}
                 ELSE timers \ {t}
    /\ ev' = Event("update_timer", t.chat_id, 0, t.message_id, None,
                   IF remaining <= 0
                   THEN (IF edit = "ok" THEN "expired" ELSE "expired_bad_request")
                   ELSE (IF edit = "ok" THEN "tick" ELSE "tick_bad_request"),
                   IF edit # "ok" THEN <<>>
                   ELSE IF remaining <= 0 THEN <<Msg("Time's up!")>>
                   ELSE <<Msg("Time remaining:")>>)
    /\ UNCHANGED <<quizzes, current_quiz, user_data, bot_data, jobs, polls,
                   session, finals>>

\* The tick runs one second after it was scheduled, or later: remaining is
\* what int((end_time - datetime.now()).total_seconds()) then gives.
update_timer(t, remaining, edit) ==
    /\ t \in timers
    /\ steps < MaxSteps
    /\ steps' = steps + 1
    /\ remaining \in {t.left - 1, 0}
    /\ edit \in {"ok", "bad_request"}
    /\ edit = "bad_request" => faults < MaxFaults
    /\ faults' = IF edit = "bad_request" THEN faults + 1 ELSE faults
    /\ IF remaining <= 0
       THEN /\ timers' = timers \ {t}
            /\ ev' = Event("update_timer", t.chat_id, 0, t.message_id, None,
                           IF edit = "ok" THEN "expired" ELSE "expired_bad_request",
                           IF edit = "ok" THEN <<Msg("Time's up!")>> ELSE <<>>)
       ELSE /\ timers' = IF edit = "ok"
                         THEN (timers \ {t}) \cup {[t EXCEPT !.left = remaining]}
                         ELSE timers \ {t}
            /\ ev' = Event("update_timer", t.chat_id, 0, t.message_id, None,
                           IF edit = "ok" THEN "tick" ELSE "tick_bad_request",
                           IF edit = "ok" THEN <<Msg("Time remaining:")>> ELSE <<>>)
    /\ UNCHANGED <<quizzes, current_quiz, user_data, bot_data, jobs, polls,
                   session, finals>>

\* ------------------------------------------------------ handle_poll_answer
\* A poll id context.bot_data does not hold.
UnknownPoll == 0

\* poll.options with voter_count > 0
Voted(poll) == {o \in Options : poll.voter_count[o] > 0}

\* What a respondent may choose in poll p: the correct option or a wrong one
\* (the handler tests the correct option only, so one wrong option stands
\* for all of them).
Choices(p) ==
    IF p \in DOMAIN polls
    THEN {polls[p].correct, (polls[p].correct + 1) % NumAnswers}
    ELSE {0}

\* A respondent chooses option opt of poll p and the transport reports the
\* poll's new state.
handle_poll_answer(p, opt) ==
    /\ steps < MaxSteps
    /\ steps' = steps + 1
    /\ IF p \notin DOMAIN bot_data
       THEN /\ ev' = Event("handle_poll_answer", 0, 0, p, None, "unknown", <<>>)
            /\ UNCHANGED <<user_data, polls>>
       ELSE LET poll == [polls[p] EXCEPT !.voter_count[opt] = @ + 1]
                chat_id == bot_data[p]
                hit == poll.correct \in Voted(poll)
            IN
            /\ polls' = [polls EXCEPT ![p] =
                            [poll EXCEPT !.scored = IF hit THEN @ + 1 ELSE @]]
            /\ user_data' = IF hit
                            THEN [user_data EXCEPT ![chat_id].score = @ + 1]
                            ELSE user_data
            /\ ev' = Event("handle_poll_answer", chat_id, poll.upd, p, poll.idx,
                           IF hit THEN "correct" ELSE "incorrect", <<>>)
    /\ UNCHANGED <<quizzes, current_quiz, bot_data, jobs, timers, session,
                   finals, faults>>

\* -------------------------------------------------------------------- Next
Next ==
    \/ \E qs \in QuestionSets : receive_data(qs) /\ UNCHANGED extract
    \/ \E chat \in Chats : generate_quiz(chat) /\ UNCHANGED extract
    \/ run_send_quiz /\ UNCHANGED extract
    \/ \E t \in timers, remaining \in 0..question_timeout,
          edit \in {"ok", "bad_request"} :
             update_timer(t, remaining, edit) /\ UNCHANGED extract
    \/ \E p \in DOMAIN polls \cup {UnknownPoll} :
          \E opt \in Choices(p) :
             handle_poll_answer(p, opt) /\ UNCHANGED extract

Spec == Init /\ [][Next]_vars

\* -------------------------------------------------------- extract_quiz_data
\* extract_quiz_data and fallback_quiz_extraction, one action per iteration of
\* their loops.  The records already appended are never touched again, so the
\* list quizzes is kept as its length and its newest record.
MaxQuizzes == 10     \* prepai_questions[:10], sentences[:10], quizzes[:10]
NumIncorrect == 3    \* options[:3], incorrect_answers[:3]
MinOptions == 4      \* len(options) >= 4

Texts == {"a", "b"}
engine == <<quizzes, current_quiz, user_data, bot_data, jobs, timers, polls,
            session, finals, steps, faults, ev>>

\* The candidate questions the two sources produce: a question text, a correct
\* answer (either may be empty) and a list of other answers.
Items ==
    [question : {"", "q"}, correct_answer : {"", "a"},
     others : UNION {[1..n -> Texts] : n \in 2..4}]

\* The orders random.shuffle may leave a list of NumAnswers elements in.
Shuffles ==
    {p \in [1..NumAnswers -> 1..NumAnswers] :
        \A i, j \in 1..NumAnswers : i # j => p[i] # p[j]}

shuffle(answers, p) == [i \in 1..Len(answers) |-> answers[p[i]]]

\* list.index: the position (from 0) of the first element equal to x.
index(answers, x) ==
    (CHOOSE i \in 1..Len(answers) :
        answers[i] = x /\ \A j \in 1..(i - 1) : answers[j] # x) - 1

\* The condition under which an item becomes a record.
Valid(src, item) ==
    /\ item.question # ""
    /\ item.correct_answer # ""
    /\ Len(item.others) >= (IF src = "prepai" THEN MinOptions ELSE NumIncorrect)

\* The record as it would be if the index were taken before the shuffle.
quiz_record_unshuffled(item, p) ==
    LET answers == SubSeq(item.others, 1, NumIncorrect) \o <<item.correct_answer>>
    IN [question |-> item.question,
        answers |-> shuffle(answers, p),
        correct |-> index(answers, item.correct_answer)]

quiz_record(item, p) ==
    LET answers == shuffle(SubSeq(item.others, 1, NumIncorrect)
                               \o <<item.correct_answer>>, p)
    IN [question |-> item.question,
        answers |-> answers,
        correct |-> index(answers, item.correct_answer)]

\* extract_quiz_data is called: PrepAI answered with questions, or the
\* fallback tokenized the text into sentences.
extract_begin(src) ==
    /\ extract.src = "idle" \/ extract.returned # None
    /\ extract' = [Idle EXCEPT !.src = src]
    /\ UNCHANGED engine

\* One iteration over the first MaxQuizzes items of the source.
extract_item(item, p) ==
    /\ extract.src # "idle"
    /\ extract.returned = None
    /\ extract.seen < MaxQuizzes
    /\ extract' =
          IF Valid(extract.src, item)
          THEN [extract EXCEPT !.seen = @ + 1, !.quizzes = @ + 1,
                               !.record = quiz_record(item, p),
                               !.correct_answer = item.correct_answer]
          ELSE [extract EXCEPT !.seen = @ + 1]
    /\ UNCHANGED engine

\* The source is exhausted or cut off: return quizzes[:10].
extract_return ==
    /\ extract.src # "idle"
    /\ extract.returned = None
    /\ extract.src = "prepai" => extract.seen > 0
    /\ extract' = [extract EXCEPT !.returned =
                      IF extract.quizzes <= MaxQuizzes THEN extract.quizzes
                                                       ELSE MaxQuizzes]
    /\ UNCHANGED engine

ExtractNext ==
    \/ \E src \in {"prepai", "fallback"} : extract_begin(src)
    \/ \E item \in Items, p \in Shuffles : extract_item(item, p)
    \/ extract_return

ExtractSpec == Init /\ [][ExtractNext]_vars

\* ============================================================== properties
\* The polls of the session of chat c that is running now.
PollsOf(c) ==
    {p \in DOMAIN polls : polls[p].chat = c /\ polls[p].upd = session[c]}

\* The question indexes sent to the running session of chat c, in order.
RECURSIVE IndexesFrom(_, _)
IndexesFrom(c, p) ==
    IF p > Len(polls) THEN <<>>
    ELSE IF p \in PollsOf(c) THEN <<polls[p].idx>> \o IndexesFrom(c, p + 1)
    ELSE IndexesFrom(c, p + 1)
Delivered(c) == IndexesFrom(c, 1)

\* How often the polls of question i of session <<c, u>> raised a score.
RECURSIVE CreditFrom(_, _, _, _)
CreditFrom(c, u, i, p) ==
    IF p > Len(polls) THEN 0
    ELSE (IF polls[p].chat = c /\ polls[p].upd = u /\ polls[p].idx = i
          THEN polls[p].scored ELSE 0) + CreditFrom(c, u, i, p + 1)
Credit(c, u, i) == CreditFrom(c, u, i, 1)

Answered(p) == Voted(polls[p]) # {}

\* The handle the session of chat c waits on: its latest poll, while nobody
\* has answered it; 0 when there is none.
Pending(c) ==
    LET mine == PollsOf(c)
        last == CHOOSE p \in mine : \A q \in mine : q <= p
    IN IF mine = {} THEN 0
       ELSE IF Answered(last) THEN 0 ELSE last

\* Every question of the running session of c was sent and answered.
AllAnswered(c) ==
    /\ c \in DOMAIN user_data
    /\ \A i \in 0..(user_data[c].total - 1) :
          \E p \in PollsOf(c) : polls[p].idx = i
    /\ \A p \in PollsOf(c) : Answered(p)

\* A run of send_quiz in which a transport call raised NetworkError.
NetworkFailure(e) ==
    /\ e.op \in {"generate_quiz", "send_quiz"}
    /\ e.out \in {"poll_neterr", "poll_neterr_notice_neterr", "msg_neterr",
                  "msg_neterr_notice_neterr"}

\* C1: every question sent to a session raises that session's score at most
\* once, however many poll updates arrive for it.
C1_ScoredOncePerQuestion ==
    \A p \in DOMAIN polls :
        Credit(polls[p].chat, polls[p].upd, polls[p].idx) <= 1

\* C2: a poll update whose poll is not the pending question of its session
\* (unknown, already answered, or superseded by a later question) changes
\* neither the score nor the cursor.
C2_StaleAnswerIsNoOp ==
    [][(/\ ev'.op = "handle_poll_answer"
        /\ \/ ev'.poll \notin DOMAIN bot_data
           \/ ev'.poll # Pending(bot_data[ev'.poll]))
       => (user_data' = user_data /\ current_quiz' = current_quiz)]_vars

C4_Finalizes ==
    \A c \in Chats :
        (AllAnswered(c) /\ jobs = <<>>)
            => (finals[c] = 1 /\ c \notin DOMAIN user_data)

\* C5: when every question of a session was sent and every answer given to
\* them chose the correct option, the score equals total.
C5_AllCorrectScoresTotal ==
    \A c \in Chats :
        (/\ AllAnswered(c)
         /\ \A p \in PollsOf(c) : Voted(polls[p]) = {polls[p].correct})
            => user_data[c].score = user_data[c].total

\* C6: when every question of a session was answered and no answer given
\* to them chose the correct option, the score is 0.
C6_AllIncorrectScoresZero ==
    \A c \in Chats :
        (/\ AllAnswered(c)
         /\ \A p \in PollsOf(c) : polls[p].correct \notin Voted(polls[p]))
            => user_data[c].score = 0

\* C7: /generate with an empty question set creates no session entry, sets
\* no cursor, sends no poll, schedules no job and no timer; it sends only
\* the "No quizzes available" message.
C7_EmptyStartCreatesNothing ==
    [][(ev'.op = "generate_quiz" /\ quizzes = <<>>)
       => /\ user_data' = user_data
          /\ current_quiz' = current_quiz
          /\ polls' = polls
          /\ bot_data' = bot_data
          /\ jobs' = jobs
          /\ timers' = timers
          /\ ev'.msgs = <<Msg("No quizzes available.")>>]_vars

C7_Witness ==
    /\ ev.op = "generate_quiz"
    /\ ev.out = "no_quizzes"
    /\ quizzes = <<>>
    /\ ev.chat \notin DOMAIN user_data
    /\ DOMAIN user_data # {}

\* C8: a delivery of index i that fails with a network error leaves the
\* cursor at i and the scores as they were, sends one "retrying" notice and
\* schedules exactly one retry for the same chat.
C8_TransientFailureRetries ==
    [][NetworkFailure(ev')
       => /\ current_quiz' = ev'.idx
          /\ ev'.op = "send_quiz" => user_data' = user_data
          /\ ev'.msgs = <<Retrying>>
          /\ jobs' = Append(IF ev'.op = "send_quiz" THEN Tail(jobs) ELSE jobs,
                            [chat_id |-> ev'.chat, update |-> ev'.upd])]_vars

C10_SessionsIndependent ==
    [][\A b \in DOMAIN user_data :
         (/\ ev'.op \in {"generate_quiz", "send_quiz", "update_timer",
                         "handle_poll_answer"}
          /\ ev'.chat # b)
         => /\ current_quiz' = current_quiz
            /\ user_data'[b] = user_data[b]
            /\ quizzes' = quizzes]_vars

\* C11: a delivery that fails with an error other than a network error is
\* not retried, the session is removed from the store with no delivery left
\* scheduled for it, and the user is told.
C11_PermanentFailureTearsDown ==
    [][(ev'.op \in {"generate_quiz", "send_quiz"} /\ ev'.out = "poll_error")
       => /\ \A k \in 1..Len(jobs') : jobs'[k].chat_id # ev'.chat
          /\ ev'.chat \notin DOMAIN user_data'
          /\ ev'.msgs # <<>>]_vars

\* C12: the total of every stored session equals the length of the question
\* set its questions are taken from, also after a new text was received.
C12_TotalIsSetLength ==
    \A c \in DOMAIN user_data : user_data[c].total = Len(quizzes)

\* C13: a countdown tick, the expiry tick and a tick whose edit fails
\* included, leaves the cursor, the scores, the pending deliveries and the
\* polls as they were.
C13_CountdownNeverAdvances ==
    [][ev'.op = "update_timer"
       => /\ current_quiz' = current_quiz
          /\ user_data' = user_data
          /\ jobs' = jobs
          /\ polls' = polls
          /\ bot_data' = bot_data
          /\ quizzes' = quizzes]_vars

C13_Witness ==
    /\ ev.op = "update_timer"
    /\ ev.out = "expired"
    /\ jobs # <<>>
    /\ current_quiz # None
    /\ ev.chat \in DOMAIN user_data

\* The option a poll update reports as newly chosen in poll p.
Chosen(p) ==
    CHOOSE o \in Options : polls'[p].voter_count[o] > polls[p].voter_count[o]

\* C14: an answer for the pending question of a session raises the score by
\* 1 when the chosen option is the correct one and by 0 otherwise, and moves
\* the cursor on by 1.
C14_AnswerScoresAndAdvances ==
    [][(/\ ev'.op = "handle_poll_answer"
        /\ ev'.poll \in DOMAIN bot_data
        /\ ev'.poll = Pending(bot_data[ev'.poll]))
       => LET p == ev'.poll
              c == bot_data[p]
          IN /\ user_data'[c].score = user_data[c].score
                    + (IF Chosen(p) = polls[p].correct THEN 1 ELSE 0)
             /\ current_quiz' = current_quiz + 1]_vars

\* C15: a poll update for a poll of an earlier session of the chat, or for a
\* poll that was answered before, leaves the score of the chat's session as
\* it was.
C15_OldHandlesRejected ==
    [][(/\ ev'.op = "handle_poll_answer"
        /\ ev'.poll \in DOMAIN bot_data
        /\ \/ polls[ev'.poll].upd # session[bot_data[ev'.poll]]
           \/ Answered(ev'.poll))
       => user_data'[bot_data[ev'.poll]].score
              = user_data[bot_data[ev'.poll]].score]_vars

\* The pending ticks of the countdown shown in message m.
TicksOf(ts, m) == {t \in ts : t.message_id = m}

\* C16: the countdown of a question ends.  A tick leaves a next tick behind
\* only when time remains and its edit succeeded, and then with less time
\* left; the expiry notice is posted by a tick that leaves none; a countdown
\* that has stopped is never started again.
C16_CountdownTerminates ==
    [][/\ \A t2 \in timers' :
             t2.message_id <= Len(polls)
                 => \E t \in TicksOf(timers, t2.message_id) : t2.left <= t.left
       /\ \A m \in DOMAIN polls' : Cardinality(TicksOf(timers', m)) <= 1
       /\ ev'.op = "update_timer"
             => LET m == ev'.poll
                    old == CHOOSE t \in TicksOf(timers, m) : TRUE
                    new == TicksOf(timers', m)
                IN /\ TicksOf(timers, m) # {}
                   /\ IF ev'.out = "tick"
                      THEN \E t2 \in new :
                              new = {t2} /\ t2.left < old.left /\ t2.left > 0
                      ELSE new = {}
                   /\ (Msg("Time's up!") \in {ev'.msgs[k] : k \in DOMAIN ev'.msgs})
                         <=> ev'.out = "expired"
                   /\ timers' \ new = timers \ {old}]_vars

C16_Witness ==
    /\ ev.op = "update_timer"
    /\ ev.out \in {"expired", "tick_bad_request"}
    /\ TicksOf(timers, ev.poll) = {}
    /\ \E t \in timers : t.left < question_timeout

\* C18: the score of a session is never below 0 nor above its total, and it
\* does not go down while the session lasts.
C18_ScoreWithinTotal ==
    /\ [](\A c \in DOMAIN user_data :
             0 <= user_data[c].score /\ user_data[c].score <= user_data[c].total)
    /\ [][\A c \in DOMAIN user_data :
             session'[c] = session[c]
                 => user_data'[c].score >= user_data[c].score]_vars

LoadedInit ==
    /\ quizzes = [i \in 1..MaxLen |-> Record(i)]
    /\ current_quiz = None
    /\ user_data = NoSessions
    /\ bot_data = <<>>
    /\ jobs = <<>>
    /\ timers = {}
    /\ polls = <<>>
    /\ session = [c \in Chats |-> 0]
    /\ finals = [c \in Chats |-> 0]
    /\ steps = 0
    /\ faults = 0
    /\ ev = Event("receive_data", 0, 0, 0, None, "generated",
                  <<Msg("Generated quizzes")>>)
    /\ extract = Idle

LoadedSpec == LoadedInit /\ [][Next]_vars

C17_RecordsWellFormed ==
    /\ extract.quizzes <= MaxQuizzes
    /\ extract.returned # None => extract.returned <= MaxQuizzes
    /\ extract.record # NoRecord =>
          /\ Len(extract.record.answers) = NumAnswers
          /\ extract.record.correct \in 0..(NumAnswers - 1)
          /\ extract.record.answers[extract.record.correct + 1]
                 = extract.correct_answer

\* A record whose answers repeat the correct answer's text and whose shuffle
\* moved the correct answer off the last place, in a full list of 10.
C17_Witness ==
    /\ extract.returned = MaxQuizzes
    /\ extract.record # NoRecord
    /\ extract.record.correct # NumAnswers - 1
    /\ Cardinality({i \in 1..NumAnswers :
                       extract.record.answers[i] = extract.correct_answer}) > 1

====
